---- MODULE Spec2Model ----
(***************************************************************************)
(* The thread scenarios of src/src/thread.rs as one state machine.  A      *)
(* behaviour is one invocation of one scenario: the parent spawns the      *)
(* worker threads, the workers run interleaved one statement at a time,    *)
(* the parent joins the handles in spawn order and verifies the            *)
(* post-condition.  A sleep is a step of unknown duration: it orders       *)
(* nothing.                                                                *)
(***************************************************************************)
EXTENDS Integers, Sequences, FiniteSets, TLC

\* thread.rs:11 sets THREAD_COUNT = 10 and thread.rs:12 ITER_COUNT = 20; the
\* scenarios are parametric in both, and the model runs them scaled down.
THREAD_COUNT == 2
ITER_COUNT == 2

Tests == {"test_mutex_counter", "test_scheduling", "test_condvar", "test_rwlock",
          "test_channel", "test_barrier", "test_thread_local_storage",
          "test_create_thread", "test_scoped_oncelock"}

\* Number of threads the scenario spawns.
NThreads(t) ==
    CASE t \in {"test_mutex_counter", "test_scheduling", "test_barrier",
                "test_thread_local_storage"} -> THREAD_COUNT
      [] t \in {"test_condvar", "test_channel"} -> 2
      [] t = "test_rwlock" -> THREAD_COUNT + THREAD_COUNT
      [] t \in {"test_create_thread", "test_scoped_oncelock"} -> 1

\* Spawn indices of the workers; the parent (the runner's thread) is MainThread.
Threads == 0 .. (IF THREAD_COUNT >= 1 THEN THREAD_COUNT + THREAD_COUNT - 1 ELSE 1)
MainThread == THREAD_COUNT + THREAD_COUNT + 1

VARIABLES
    test,          \* the scenario being run
    main,          \* the parent's position: "spawn", "join", "verify", "returned"
    handles,       \* number of threads spawned so far (length of the handles vec)
    joined,        \* number of handles the join loop has consumed
    result,        \* what the scenario returned
    pc,            \* each worker's position
    ret,           \* each worker closure's return value
    iter,          \* each worker's loop index (i or j of its for loop)
    read_val,      \* the value each worker last read from the shared or thread-local slot
    counter,       \* Arc<Mutex<i32>> of test_mutex_counter and test_scheduling
    pair,          \* Arc<(Mutex<bool>, Condvar)> of test_condvar
    spurious,      \* whether the waiter of test_condvar was ever woken without a notify
    rwlock,        \* Arc<RwLock<i32>> of test_rwlock
    channel,       \* the mpsc channel of test_channel
    received,      \* the receiver's vec
    barrier,       \* Arc<Barrier> of test_barrier
    local_gen,     \* each barrier waiter's copy of the generation it arrived in
    THREAD_LOCAL,  \* one slot per thread
    lock,          \* OnceLock<i32> of test_scoped_oncelock: <<>> is unset, <<v>> holds v
    inits,         \* number of times the initialiser of the OnceLock has run
    run_state,     \* main(): "loop", "calling", "summary", "exited"
    next_test,     \* main(): index of the registry entry the loop is at
    failed,        \* main(): the failed counter
    stdout,        \* the lines printed
    exit_code,     \* the process's exit code once it has ended, -1 before
    macro_args,    \* the operands an assertion macro is expanded with
    macro_state    \* the enclosing function of the macro: "before", "continued",
                   \* "returned" (by the macro), "completed" (by its last statement)

vars == <<test, main, handles, joined, result, pc, ret, iter, read_val, counter,
          pair, spurious, rwlock, channel, received, barrier, local_gen, THREAD_LOCAL,
          lock, inits, run_state, next_test, failed, stdout, exit_code,
          macro_args, macro_state>>

\* What main() owns, what an expansion of an assertion macro owns, and what
\* no worker of the lock, channel, barrier and thread-local scenarios touches.
runnerVars == <<run_state, next_test, failed, stdout, exit_code>>
macroVars == <<macro_args, macro_state>>
extVars == <<lock, inits, runnerVars, macroVars>>

parentVars == <<main, handles, joined, result>>

\* ------------------------------------------------------------------ results

NoRet == [kind |-> "None", msg |-> "", args |-> <<>>]
Ok == [kind |-> "Ok", msg |-> "", args |-> <<>>]
Err(m, a) == [kind |-> "Err", msg |-> m, args |-> a]

\* main.rs:85-91.  The message quotes the condition text in backquotes, which a
\* TLA+ string cannot hold: an apostrophe stands for each.
assert_res_inverted(cond, text) ==
    IF cond THEN Err("Assertion failed: '" \o text \o "' is false", <<>>)
    ELSE Ok

assert_res(cond, text) ==
    IF ~cond THEN Err("Assertion failed: '" \o text \o "' is false", <<>>)
    ELSE Ok

\* main.rs:94-110
assert_eq_res(left, right, ltext, rtext) ==
    IF ~(left = right)
    THEN Err("Assertion failed: '" \o ltext \o "' != '" \o rtext \o "'. Left: {:?}, Right: {:?}",
             <<left, right>>)
    ELSE Ok

\* ------------------------------------------------------------------ Init

\* main() before its loop.
RunnerVarsInit ==
    /\ run_state = "loop"
    /\ next_test = 1
    /\ failed = 0
    /\ stdout = <<>>
    /\ exit_code = -1

NoArgs == [macro |-> "", cond |-> TRUE, left |-> 0, right |-> 0, texts |-> <<>>]

MacroVarsInit ==
    /\ macro_args = NoArgs
    /\ macro_state = "before"

\* The state a scenario starts in.
ScenarioVarsInit ==
    /\ main = "spawn"
    /\ handles = 0
    /\ joined = 0
    /\ result = NoRet
    /\ pc = [t \in Threads |-> "not_spawned"]
    /\ ret = [t \in Threads |-> NoRet]
    /\ iter = [t \in Threads |-> 0]
    /\ read_val = [t \in Threads |-> 0]
    /\ counter = [num |-> 0, holder |-> {}, poisoned |-> FALSE]
    /\ pair = [started |-> FALSE, holder |-> {}, waiters |-> {}, poisoned |-> FALSE]
    /\ spurious = FALSE
    /\ rwlock = [num |-> 0, writer |-> {}, readers |-> {}, poisoned |-> FALSE]
    /\ channel = [queue |-> <<>>, sender |-> TRUE, receiver |-> TRUE]
    /\ received = <<>>
    /\ barrier = [count |-> 0, generation_id |-> 0]
    /\ local_gen = [t \in Threads |-> 0]
    /\ THREAD_LOCAL = [s \in Threads \cup {MainThread} |-> 0]
    /\ lock = <<>>
    /\ inits = 0

Init ==
    /\ test \in Tests
    /\ ScenarioVarsInit
    /\ RunnerVarsInit
    /\ MacroVarsInit

\* ------------------------------------------------------------------ helpers

\* The closure of thread t returns r: the thread terminates.
Finish(t, r) ==
    /\ pc' = [pc EXCEPT ![t] = "done"]
    /\ ret' = [ret EXCEPT ![t] = r]

Goto(t, label) ==
    /\ pc' = [pc EXCEPT ![t] = label]
    /\ UNCHANGED ret

\* Mutex::lock blocks until no thread holds the guard.  It returns Err, with
\* the guard inside, when a thread has panicked while holding the guard; the
\* closures map that to their own message and drop the guard.
CanLock_noexclusion(m) == TRUE
CanLock(m) == m.holder = {}

Acquire(m, t) == [m EXCEPT !.holder = @ \cup {t}]
Release(m, t) == [m EXCEPT !.holder = @ \ {t}]

\* First statement of the closure of worker t.
Entry(tst, t) ==
    CASE tst \in {"test_mutex_counter", "test_scheduling", "test_condvar"} -> "lock"
      [] tst = "test_rwlock" -> IF t < THREAD_COUNT THEN "write" ELSE "read"
      [] tst = "test_channel" -> IF t = 0 THEN "send" ELSE "recv"
      [] tst = "test_barrier" -> "sleep"
      [] tst = "test_thread_local_storage" -> "write"
      [] tst = "test_create_thread" -> "sleep"
      [] tst = "test_scoped_oncelock" -> "init"

\* ------------------------------------------------------------------ parent

\* thread::spawn in the scenario's spawn loop (or its two spawn statements).
Spawn ==
    /\ main = "spawn"
    /\ handles < NThreads(test)
    /\ pc' = [pc EXCEPT ![handles] = Entry(test, handles)]
    /\ handles' = handles + 1
    /\ main' = IF handles + 1 = NThreads(test) THEN "join" ELSE "spawn"
    /\ UNCHANGED <<test, extVars, joined, result, ret, iter, read_val, counter, pair, spurious,
                   rwlock, channel, received, barrier, local_gen, THREAD_LOCAL>>

\* handle.join() returns once the thread has terminated.
JoinReady_nowait(h) == TRUE
JoinReady(h) == pc[h] = "done"

\* What a thread that terminated by panicking leaves in its JoinHandle.
Panicked == [kind |-> "Panic", msg |-> "", args |-> <<>>]

\* The message of each join's map_err(|_| ..).
PanicMessage(tst, h) ==
    CASE tst = "test_condvar" -> IF h = 0 THEN "Thread 1 panicked" ELSE "Thread 2 panicked"
      [] tst = "test_channel" ->
            IF h = 0 THEN "Sender thread panicked" ELSE "Receiver thread panicked"
      [] OTHER -> "Thread panicked"

\* handle.join().map_err(|_| "Thread panicked".to_string()): join returns the
\* closure's value, or Err when the thread panicked, which map_err turns into
\* the message.
JoinOutcome_unwrap(tst, h, r) == r
JoinOutcome_outer_only(tst, h, r) ==
    IF r.kind = "Panic" THEN Err(PanicMessage(tst, h), <<>>) ELSE Ok
JoinOutcome(tst, h, r) ==
    IF r.kind = "Panic" THEN Err(PanicMessage(tst, h), <<>>) ELSE r

\* for handle in handles { handle.join().map_err(..)??; }: an Err, of the join
\* or returned by the joined closure, returns from the scenario at once; the
\* handles not yet joined are dropped, which detaches their threads.  A panic
\* that reached the parent would unwind it.
Join ==
    /\ main = "join"
    /\ joined < NThreads(test)
    /\ JoinReady(joined)
    /\ LET o == JoinOutcome(test, joined, ret[joined]) IN
       IF o.kind = "Err"
       THEN /\ result' = o
            /\ main' = "returned"
            /\ UNCHANGED joined
       ELSE IF o.kind = "Panic"
       THEN /\ main' = "panicked"
            /\ UNCHANGED <<joined, result>>
       ELSE /\ joined' = joined + 1
            /\ main' = IF joined + 1 = NThreads(test) THEN "verify" ELSE "join"
            /\ UNCHANGED result
    /\ UNCHANGED <<test, extVars, handles, pc, ret, iter, read_val, counter, pair, spurious,
                   rwlock, channel, received, barrier, local_gen, THREAD_LOCAL>>

\* The slot THREAD_LOCAL.with reaches from the parent, which never writes to it.
MainSlot == MainThread

\* The statements after the join loop: the scenario's post-condition.
VerifyReady ==
    CASE test \in {"test_mutex_counter", "test_scheduling"} -> CanLock(counter)
      [] test = "test_condvar" -> CanLock(pair)
      [] test = "test_rwlock" -> rwlock.writer = {}
      [] OTHER -> TRUE

Expected == [i \in 1 .. THREAD_COUNT |-> i - 1]

VerifyResult ==
    CASE test \in {"test_mutex_counter", "test_scheduling"} ->
            IF counter.poisoned THEN Err("Failed to lock mutex", <<>>)
            ELSE assert_eq_res(counter.num, THREAD_COUNT * ITER_COUNT,
                               "result", "THREAD_COUNT * ITER_COUNT")
      [] test = "test_condvar" ->
            IF pair.poisoned THEN Err("Failed to lock mutex", <<>>)
            ELSE assert_res(pair.started, "*started")
      [] test = "test_rwlock" ->
            IF rwlock.poisoned THEN Err("Failed to lock RwLock for reading", <<>>)
            ELSE assert_eq_res(rwlock.num, THREAD_COUNT,
                               "final_count", "THREAD_COUNT as i32")
      [] test = "test_channel" -> assert_eq_res(received, Expected, "received", "expected")
      [] test \in {"test_barrier", "test_create_thread"} -> Ok
      [] test = "test_scoped_oncelock" ->
            assert_eq_res(lock, <<42>>, "lock.get()", "Some(&42)")
      [] test = "test_thread_local_storage" ->
            assert_eq_res(THREAD_LOCAL[MainSlot], 0, "final_value", "0")

Verify ==
    /\ main = "verify"
    /\ VerifyReady
    /\ result' = VerifyResult
    /\ main' = "returned"
    /\ UNCHANGED <<test, extVars, handles, joined, pc, ret, iter, read_val, counter, pair, spurious,
                   rwlock, channel, received, barrier, local_gen, THREAD_LOCAL>>

Parent == Spawn \/ Join \/ Verify

\* ------------------------------------------------------------------ test_mutex_counter

\* counter.lock()
mutex_counter_lock(t) ==
    /\ test = "test_mutex_counter"
    /\ pc[t] = "lock"
    /\ CanLock(counter)
    /\ IF counter.poisoned
       THEN /\ Finish(t, Err("Failed to lock mutex", <<>>))
            /\ UNCHANGED counter
       ELSE /\ counter' = Acquire(counter, t)
            /\ Goto(t, "load")
    /\ UNCHANGED <<test, extVars, parentVars, iter, read_val, pair, spurious, rwlock, channel,
                   received, barrier, local_gen, THREAD_LOCAL>>

\* *num += 1 reads the integer through the guard ...
mutex_counter_load(t) ==
    /\ test = "test_mutex_counter"
    /\ pc[t] = "load"
    /\ read_val' = [read_val EXCEPT ![t] = counter.num]
    /\ Goto(t, "store")
    /\ UNCHANGED <<test, extVars, parentVars, iter, counter, pair, spurious, rwlock, channel,
                   received, barrier, local_gen, THREAD_LOCAL>>

\* ... and writes it back incremented; the guard is dropped at the end of the
\* loop body, and the closure returns Ok after ITER_COUNT rounds.
mutex_counter_store(t) ==
    /\ test = "test_mutex_counter"
    /\ pc[t] = "store"
    /\ counter' = Release([counter EXCEPT !.num = read_val[t] + 1], t)
    /\ iter' = [iter EXCEPT ![t] = @ + 1]
    /\ IF iter[t] + 1 < ITER_COUNT THEN Goto(t, "lock") ELSE Finish(t, Ok)
    /\ UNCHANGED <<test, extVars, parentVars, read_val, pair, spurious, rwlock, channel,
                   received, barrier, local_gen, THREAD_LOCAL>>

mutex_counter_worker(t) ==
    \/ mutex_counter_lock(t)
    \/ mutex_counter_load(t)
    \/ mutex_counter_store(t)

\* ------------------------------------------------------------------ test_scheduling

\* if *num < upper { return Err(..) }, with upper = j * THREAD_COUNT.
BandViolated_never(value, j) == FALSE
BandViolated_symmetric(value, j) ==
    value < j * THREAD_COUNT \/ value >= (j + 1) * THREAD_COUNT
BandViolated(value, j) == value < j * THREAD_COUNT

\* format!("Thread {i}, loop iteration {j}: value {} not in expected range {}..{}",
\*         *num, upper, lower), with lower = (j + 1) * THREAD_COUNT.
BandError(i, j, value) ==
    Err("Thread {i}, loop iteration {j}: value {} not in expected range {}..{}",
        <<i, j, value, j * THREAD_COUNT, (j + 1) * THREAD_COUNT>>)

\* counter.lock()
scheduling_lock(t) ==
    /\ test = "test_scheduling"
    /\ pc[t] = "lock"
    /\ CanLock(counter)
    /\ IF counter.poisoned
       THEN /\ Finish(t, Err("Failed to lock mutex", <<>>))
            /\ UNCHANGED counter
       ELSE /\ counter' = Acquire(counter, t)
            /\ Goto(t, "check")
    /\ UNCHANGED <<test, extVars, parentVars, iter, read_val, pair, spurious, rwlock, channel,
                   received, barrier, local_gen, THREAD_LOCAL>>

scheduling_check_leak(t) ==
    /\ test = "test_scheduling"
    /\ pc[t] = "check"
    /\ read_val' = [read_val EXCEPT ![t] = counter.num]
    /\ IF BandViolated(counter.num, iter[t])
       THEN /\ Finish(t, BandError(t, iter[t], counter.num))
            /\ UNCHANGED counter
       ELSE /\ Goto(t, "incr")
            /\ UNCHANGED counter
    /\ UNCHANGED <<test, extVars, parentVars, iter, pair, spurious, rwlock, channel,
                   received, barrier, local_gen, THREAD_LOCAL>>

\* The band check of round j = iter[t]: on failure the closure returns the
\* error and the guard is dropped by the return.
scheduling_check(t) ==
    /\ test = "test_scheduling"
    /\ pc[t] = "check"
    /\ read_val' = [read_val EXCEPT ![t] = counter.num]
    /\ IF BandViolated(counter.num, iter[t])
       THEN /\ Finish(t, BandError(t, iter[t], counter.num))
            /\ counter' = Release(counter, t)
       ELSE /\ Goto(t, "incr")
            /\ UNCHANGED counter
    /\ UNCHANGED <<test, extVars, parentVars, iter, pair, spurious, rwlock, channel,
                   received, barrier, local_gen, THREAD_LOCAL>>

\* *num += 1; drop(num);
scheduling_incr(t) ==
    /\ test = "test_scheduling"
    /\ pc[t] = "incr"
    /\ counter' = Release([counter EXCEPT !.num = @ + 1], t)
    /\ Goto(t, "sleep")
    /\ UNCHANGED <<test, extVars, parentVars, iter, read_val, pair, spurious, rwlock, channel,
                   received, barrier, local_gen, THREAD_LOCAL>>

\* std::thread::sleep(5 ms), then the next round or Ok.
scheduling_sleep(t) ==
    /\ test = "test_scheduling"
    /\ pc[t] = "sleep"
    /\ iter' = [iter EXCEPT ![t] = @ + 1]
    /\ IF iter[t] + 1 < ITER_COUNT THEN Goto(t, "lock") ELSE Finish(t, Ok)
    /\ UNCHANGED <<test, extVars, parentVars, read_val, counter, pair, spurious, rwlock, channel,
                   received, barrier, local_gen, THREAD_LOCAL>>

scheduling_worker(t) ==
    \/ scheduling_lock(t)
    \/ scheduling_check(t)
    \/ scheduling_incr(t)
    \/ scheduling_sleep(t)

\* ------------------------------------------------------------------ test_condvar
\* Thread 0 is thread1 (the setter), thread 1 is thread2 (the waiter).

\* lock.lock() of either thread.
condvar_lock(t) ==
    /\ test = "test_condvar"
    /\ pc[t] = "lock"
    /\ CanLock(pair)
    /\ IF pair.poisoned
       THEN /\ Finish(t, Err("Failed to lock mutex", <<>>))
            /\ UNCHANGED pair
       ELSE /\ pair' = Acquire(pair, t)
            /\ Goto(t, IF t = 0 THEN "set" ELSE "test")
    /\ UNCHANGED <<test, extVars, parentVars, iter, read_val, counter, spurious, rwlock, channel,
                   received, barrier, local_gen, THREAD_LOCAL>>

\* *started = true;
condvar_set(t) ==
    /\ test = "test_condvar"
    /\ pc[t] = "set"
    /\ pair' = [pair EXCEPT !.started = TRUE]
    /\ Goto(t, "notify")
    /\ UNCHANGED <<test, extVars, parentVars, iter, read_val, counter, spurious, rwlock, channel,
                   received, barrier, local_gen, THREAD_LOCAL>>

\* The sets of threads notify_one may wake: one waiter, or nobody when none waits.
NotifyOne(ws) == IF ws = {} THEN {{}} ELSE {{w} : w \in ws}

condvar_notify_omitted(t) ==
    /\ test = "test_condvar"
    /\ pc[t] = "notify"
    /\ pair' = Release(pair, t)
    /\ Finish(t, Ok)
    /\ UNCHANGED <<test, extVars, parentVars, iter, read_val, counter, spurious, rwlock, channel,
                   received, barrier, local_gen, THREAD_LOCAL>>

\* cvar.notify_one(); Ok(()): the woken waiter has to take the mutex again; the
\* guard is dropped by the return.
condvar_notify(t) ==
    /\ test = "test_condvar"
    /\ pc[t] = "notify"
    /\ \E W \in NotifyOne(pair.waiters) :
          /\ pair' = Release([pair EXCEPT !.waiters = @ \ W], t)
          /\ pc' = [x \in Threads |->
                      IF x = t THEN "done" ELSE IF x \in W THEN "relock" ELSE pc[x]]
    /\ ret' = [ret EXCEPT ![t] = Ok]
    /\ UNCHANGED <<test, extVars, parentVars, iter, read_val, counter, spurious, rwlock, channel,
                   received, barrier, local_gen, THREAD_LOCAL>>

\* while !*started
WaitLoopCondition_nowait(started) == FALSE
WaitLoopCondition(started) == ~started

\* The loop test of the waiter, under the guard: leave the loop and return Ok,
\* or cvar.wait(started), which releases the mutex and blocks.
condvar_test(t) ==
    /\ test = "test_condvar"
    /\ pc[t] = "test"
    /\ read_val' = [read_val EXCEPT ![t] = IF pair.started THEN 1 ELSE 0]
    /\ IF WaitLoopCondition(pair.started)
       THEN /\ pair' = Release([pair EXCEPT !.waiters = @ \cup {t}], t)
            /\ Goto(t, "waiting")
       ELSE /\ pair' = Release(pair, t)
            /\ Finish(t, Ok)
    /\ UNCHANGED <<test, extVars, parentVars, iter, counter, spurious, rwlock, channel,
                   received, barrier, local_gen, THREAD_LOCAL>>

\* Condvar::wait may return without any notification.
condvar_spurious_wakeup(t) ==
    /\ test = "test_condvar"
    /\ pc[t] = "waiting"
    /\ t \in pair.waiters
    /\ pair' = [pair EXCEPT !.waiters = @ \ {t}]
    /\ spurious' = TRUE
    /\ Goto(t, "relock")
    /\ UNCHANGED <<test, extVars, parentVars, iter, read_val, counter, rwlock, channel,
                   received, barrier, local_gen, THREAD_LOCAL>>

\* cvar.wait returns the guard once the mutex is taken again; back to the loop test.
condvar_relock(t) ==
    /\ test = "test_condvar"
    /\ pc[t] = "relock"
    /\ CanLock(pair)
    /\ IF pair.poisoned
       THEN /\ Finish(t, Err("Failed to wait", <<>>))
            /\ UNCHANGED pair
       ELSE /\ pair' = Acquire(pair, t)
            /\ Goto(t, "test")
    /\ UNCHANGED <<test, extVars, parentVars, iter, read_val, counter, spurious, rwlock, channel,
                   received, barrier, local_gen, THREAD_LOCAL>>

condvar_worker(t) ==
    \/ condvar_lock(t)
    \/ condvar_set(t)
    \/ condvar_notify(t)
    \/ condvar_test(t)
    \/ condvar_spurious_wakeup(t)
    \/ condvar_relock(t)

\* ------------------------------------------------------------------ test_rwlock
\* Threads 0 .. THREAD_COUNT-1 are the writers, the next THREAD_COUNT the readers.

\* RwLock::write blocks while any guard is out; RwLock::read while a write
\* guard is out.  Either returns Err once a writer has panicked under its guard.
CanWrite_noexclusion(rw) == TRUE
CanWrite(rw) == rw.writer = {} /\ rw.readers = {}
CanRead_anytime(rw) == TRUE
CanRead(rw) == rw.writer = {}

\* rwlock.write()
rwlock_write(t) ==
    /\ test = "test_rwlock"
    /\ pc[t] = "write"
    /\ CanWrite(rwlock)
    /\ IF rwlock.poisoned
       THEN /\ Finish(t, Err("Failed to lock RwLock for writing", <<>>))
            /\ UNCHANGED rwlock
       ELSE /\ rwlock' = [rwlock EXCEPT !.writer = @ \cup {t}]
            /\ Goto(t, "load")
    /\ UNCHANGED <<test, extVars, parentVars, iter, read_val, counter, pair, spurious, channel,
                   received, barrier, local_gen, THREAD_LOCAL>>

\* *num += 1 reads the integer through the write guard ...
rwlock_load(t) ==
    /\ test = "test_rwlock"
    /\ pc[t] = "load"
    /\ read_val' = [read_val EXCEPT ![t] = rwlock.num]
    /\ Goto(t, "store")
    /\ UNCHANGED <<test, extVars, parentVars, iter, counter, pair, spurious, rwlock, channel,
                   received, barrier, local_gen, THREAD_LOCAL>>

\* ... and writes it back incremented; Ok(()) drops the guard.
rwlock_store(t) ==
    /\ test = "test_rwlock"
    /\ pc[t] = "store"
    /\ rwlock' = [rwlock EXCEPT !.num = read_val[t] + 1, !.writer = @ \ {t}]
    /\ Finish(t, Ok)
    /\ UNCHANGED <<test, extVars, parentVars, iter, read_val, counter, pair, spurious, channel,
                   received, barrier, local_gen, THREAD_LOCAL>>

\* rwlock.read()
rwlock_read(t) ==
    /\ test = "test_rwlock"
    /\ pc[t] = "read"
    /\ CanRead(rwlock)
    /\ IF rwlock.poisoned
       THEN /\ Finish(t, Err("Failed to lock RwLock for reading", <<>>))
            /\ UNCHANGED rwlock
       ELSE /\ rwlock' = [rwlock EXCEPT !.readers = @ \cup {t}]
            /\ Goto(t, "assert")
    /\ UNCHANGED <<test, extVars, parentVars, iter, read_val, counter, pair, spurious, channel,
                   received, barrier, local_gen, THREAD_LOCAL>>

\* assert_res!(*num >= 1); Ok(()): either return drops the read guard.
rwlock_assert(t) ==
    /\ test = "test_rwlock"
    /\ pc[t] = "assert"
    /\ read_val' = [read_val EXCEPT ![t] = rwlock.num]
    /\ rwlock' = [rwlock EXCEPT !.readers = @ \ {t}]
    /\ Finish(t, assert_res(rwlock.num >= 1, "*num >= 1"))
    /\ UNCHANGED <<test, extVars, parentVars, iter, counter, pair, spurious, channel,
                   received, barrier, local_gen, THREAD_LOCAL>>

rwlock_worker(t) ==
    \/ rwlock_write(t)
    \/ rwlock_load(t)
    \/ rwlock_store(t)
    \/ rwlock_read(t)
    \/ rwlock_assert(t)

\* ------------------------------------------------------------------ test_channel
\* Thread 0 runs the sender closure, thread 1 the receiver closure.

\* mpsc: send appends to the queue, recv takes its head.
Enqueue_front(q, v) == <<v>> \o q
Enqueue(q, v) == Append(q, v)

\* sender.send(i) for i in 0..THREAD_COUNT: Err once the receiver is dropped.
channel_send(t) ==
    /\ test = "test_channel"
    /\ pc[t] = "send"
    /\ IF channel.receiver
       THEN /\ channel' = [channel EXCEPT !.queue = Enqueue(@, iter[t])]
            /\ iter' = [iter EXCEPT ![t] = @ + 1]
            /\ Goto(t, IF iter[t] + 1 < THREAD_COUNT THEN "send" ELSE "return")
       ELSE /\ channel' = [channel EXCEPT !.sender = FALSE]
            /\ Finish(t, Err("Failed to send message", <<>>))
            /\ UNCHANGED iter
    /\ UNCHANGED <<test, extVars, parentVars, read_val, counter, pair, spurious, rwlock,
                   received, barrier, local_gen, THREAD_LOCAL>>

channel_recv_eager_disconnect(t) ==
    /\ test = "test_channel"
    /\ pc[t] = "recv"
    /\ channel.queue # <<>> \/ ~channel.sender
    /\ IF channel.sender
       THEN /\ received' = Append(received, Head(channel.queue))
            /\ read_val' = [read_val EXCEPT ![t] = Head(channel.queue)]
            /\ channel' = [channel EXCEPT !.queue = Tail(@)]
            /\ iter' = [iter EXCEPT ![t] = @ + 1]
            /\ Goto(t, IF iter[t] + 1 < THREAD_COUNT THEN "recv" ELSE "return")
       ELSE /\ channel' = [channel EXCEPT !.receiver = FALSE]
            /\ Finish(t, Err("Failed to receive message", <<>>))
            /\ UNCHANGED <<received, read_val, iter>>
    /\ UNCHANGED <<test, extVars, parentVars, counter, pair, spurious, rwlock,
                   barrier, local_gen, THREAD_LOCAL>>

\* receiver.recv() blocks while the queue is empty and the sender lives; Err
\* once the queue is empty and the sender is dropped.  received.push(num).
channel_recv(t) ==
    /\ test = "test_channel"
    /\ pc[t] = "recv"
    /\ channel.queue # <<>> \/ ~channel.sender
    /\ IF channel.queue # <<>>
       THEN /\ received' = Append(received, Head(channel.queue))
            /\ read_val' = [read_val EXCEPT ![t] = Head(channel.queue)]
            /\ channel' = [channel EXCEPT !.queue = Tail(@)]
            /\ iter' = [iter EXCEPT ![t] = @ + 1]
            /\ Goto(t, IF iter[t] + 1 < THREAD_COUNT THEN "recv" ELSE "return")
       ELSE /\ channel' = [channel EXCEPT !.receiver = FALSE]
            /\ Finish(t, Err("Failed to receive message", <<>>))
            /\ UNCHANGED <<received, read_val, iter>>
    /\ UNCHANGED <<test, extVars, parentVars, counter, pair, spurious, rwlock,
                   barrier, local_gen, THREAD_LOCAL>>

\* Ok(()) / Ok(received): the closure's endpoint is dropped with it.
channel_return(t) ==
    /\ test = "test_channel"
    /\ pc[t] = "return"
    /\ channel' = IF t = 0 THEN [channel EXCEPT !.sender = FALSE]
                  ELSE [channel EXCEPT !.receiver = FALSE]
    /\ Finish(t, Ok)
    /\ UNCHANGED <<test, extVars, parentVars, iter, read_val, counter, pair, spurious, rwlock,
                   received, barrier, local_gen, THREAD_LOCAL>>

channel_worker(t) ==
    \/ channel_send(t)
    \/ channel_recv(t)
    \/ channel_return(t)

\* ------------------------------------------------------------------ test_barrier

\* Barrier::new(THREAD_COUNT)
num_threads_short == THREAD_COUNT - 1
num_threads_long == THREAD_COUNT + 1
num_threads == THREAD_COUNT

\* thread::sleep(10 ms)
barrier_sleep(t) ==
    /\ test = "test_barrier"
    /\ pc[t] = "sleep"
    /\ Goto(t, "wait")
    /\ UNCHANGED <<test, extVars, parentVars, iter, read_val, counter, pair, spurious, rwlock,
                   channel, received, barrier, local_gen, THREAD_LOCAL>>

\* barrier.wait() on arrival: the arrival is counted; the one that completes
\* the group resets the count, starts the next generation and returns, the
\* others block until the generation changes.
barrier_wait(t) ==
    /\ test = "test_barrier"
    /\ pc[t] = "wait"
    /\ local_gen' = [local_gen EXCEPT ![t] = barrier.generation_id]
    /\ IF barrier.count + 1 < num_threads
       THEN /\ barrier' = [barrier EXCEPT !.count = @ + 1]
            /\ Goto(t, "blocked")
       ELSE /\ barrier' = [count |-> 0, generation_id |-> barrier.generation_id + 1]
            /\ Finish(t, Ok)
    /\ UNCHANGED <<test, extVars, parentVars, iter, read_val, counter, pair, spurious, rwlock,
                   channel, received, THREAD_LOCAL>>

\* barrier.wait() returns to a blocked thread once its generation is over; Ok(()).
barrier_release(t) ==
    /\ test = "test_barrier"
    /\ pc[t] = "blocked"
    /\ local_gen[t] # barrier.generation_id
    /\ Finish(t, Ok)
    /\ UNCHANGED <<test, extVars, parentVars, iter, read_val, counter, pair, spurious, rwlock,
                   channel, received, barrier, local_gen, THREAD_LOCAL>>

barrier_worker(t) ==
    \/ barrier_sleep(t)
    \/ barrier_wait(t)
    \/ barrier_release(t)

\* ------------------------------------------------------------------ test_thread_local_storage

\* thread_local! { static THREAD_LOCAL }: the slot a thread's access reaches.
Slot_shared(t) == MainThread
Slot(t) == t

\* *local.borrow_mut() = i + 20;
thread_local_write(t) ==
    /\ test = "test_thread_local_storage"
    /\ pc[t] = "write"
    /\ THREAD_LOCAL' = [THREAD_LOCAL EXCEPT ![Slot(t)] = t + 20]
    /\ Goto(t, "sleep")
    /\ UNCHANGED <<test, extVars, parentVars, iter, read_val, counter, pair, spurious, rwlock,
                   channel, received, barrier, local_gen>>

\* std::thread::sleep(10 ms)
thread_local_sleep(t) ==
    /\ test = "test_thread_local_storage"
    /\ pc[t] = "sleep"
    /\ Goto(t, "read")
    /\ UNCHANGED <<test, extVars, parentVars, iter, read_val, counter, pair, spurious, rwlock,
                   channel, received, barrier, local_gen, THREAD_LOCAL>>

\* assert_eq_res!(*local.borrow(), i + 20); Ok(())
thread_local_read(t) ==
    /\ test = "test_thread_local_storage"
    /\ pc[t] = "read"
    /\ read_val' = [read_val EXCEPT ![t] = THREAD_LOCAL[Slot(t)]]
    /\ Finish(t, assert_eq_res(THREAD_LOCAL[Slot(t)], t + 20, "*local.borrow()", "i + 20"))
    /\ UNCHANGED <<test, extVars, parentVars, iter, counter, pair, spurious, rwlock,
                   channel, received, barrier, local_gen, THREAD_LOCAL>>

thread_local_worker(t) ==
    \/ thread_local_write(t)
    \/ thread_local_sleep(t)
    \/ thread_local_read(t)

\* ------------------------------------------------------------------ test_create_thread

\* thread::sleep(10 ms); the closure returns ().
create_thread_sleep(t) ==
    /\ test = "test_create_thread"
    /\ pc[t] = "sleep"
    /\ Finish(t, Ok)
    /\ UNCHANGED <<test, extVars, parentVars, iter, read_val, counter, pair, spurious,
                   rwlock, channel, received, barrier, local_gen, THREAD_LOCAL>>

\* ------------------------------------------------------------------ test_scoped_oncelock

\* OnceLock::get_or_init(f): f runs, and its value is stored, only if the cell is unset.
get_or_init_overwrite(cell, v) == <<v>>
get_or_init(cell, v) == IF cell = <<>> THEN <<v>> ELSE cell

\* lock.get_or_init(|| 42); the scoped closure returns ().
scoped_oncelock_init(t) ==
    /\ test = "test_scoped_oncelock"
    /\ pc[t] = "init"
    /\ lock' = get_or_init(lock, 42)
    /\ inits' = IF lock = <<>> THEN inits + 1 ELSE inits
    /\ Finish(t, Ok)
    /\ UNCHANGED <<test, runnerVars, macroVars, parentVars, iter, read_val, counter, pair,
                   spurious, rwlock, channel, received, barrier, local_gen, THREAD_LOCAL>>

\* ------------------------------------------------------------------ specification

Worker(t) ==
    \/ create_thread_sleep(t)
    \/ scoped_oncelock_init(t)
    \/ rwlock_worker(t)
    \/ channel_worker(t)
    \/ barrier_worker(t)
    \/ thread_local_worker(t)
    \/ scheduling_worker(t)
    \/ condvar_worker(t)
    \/ mutex_counter_worker(t)

Next ==
    \/ Parent
    \/ \E t \in Threads : Worker(t)

Spec == Init /\ [][Next]_vars

\* ------------------------------------------------------------------ panics
\* No closure of thread.rs panics by itself.  Panic(t) makes the closure of
\* thread t panic at the statement it is at, to exercise what the joins and the
\* lock calls do with a panicked thread: unwinding drops what the closure
\* holds, a mutex or a write lock held is poisoned, a channel endpoint owned is
\* dropped.  A thread blocked inside Condvar::wait or Barrier::wait runs no
\* statement.
Unwind(m, t) ==
    IF t \in m.holder THEN [m EXCEPT !.holder = @ \ {t}, !.poisoned = TRUE] ELSE m

Panic(t) ==
    /\ pc[t] \notin {"not_spawned", "done", "waiting", "blocked"}
    /\ pc' = [pc EXCEPT ![t] = "done"]
    /\ ret' = [ret EXCEPT ![t] = Panicked]
    /\ counter' = Unwind(counter, t)
    /\ pair' = Unwind(pair, t)
    /\ rwlock' = [rwlock EXCEPT !.writer = @ \ {t}, !.readers = @ \ {t},
                                !.poisoned = @ \/ t \in rwlock.writer]
    /\ channel' = IF test # "test_channel" THEN channel
                  ELSE IF t = 0 THEN [channel EXCEPT !.sender = FALSE]
                  ELSE [channel EXCEPT !.receiver = FALSE]
    /\ UNCHANGED <<test, extVars, parentVars, iter, read_val, spurious, received,
                   barrier, local_gen, THREAD_LOCAL>>

PanicNext ==
    \/ Next
    \/ \E t \in Threads : Panic(t)

PanicSpec == Init /\ [][PanicNext]_vars

\* ------------------------------------------------------------------ main

\* main.rs:28-61: the registry, in registration order.
tests == <<"fs::test_create_file", "fs::test_write_and_read_file", "fs::test_file_exists",
           "fs::test_remove_file", "fs::test_create_directory", "fs::test_directory_exists",
           "fs::test_remove_directory", "fs::test_create_file_with_path",
           "fs::test_file_write_multiple_times", "fs::test_file_read_as_string",
           "fs::test_read_file_with_bufreader", "fs::test_read_file_with_file_open",
           "fs::test_write_and_read_large_file", "fs::test_create_nested_directories",
           "fs::test_list_directory", "fs::test_copy_file", "fs::test_move_file",
           "fs::test_empty_directory", "fs::test_read_empty_file",
           "fs::test_directory_listing_after_removal", "fs::test_file_replacement",
           "thread::test_create_thread", "thread::test_mutex_counter",
           "thread::test_scheduling", "thread::test_condvar", "thread::test_thread_join",
           "thread::test_thread_sleep", "thread::test_rwlock", "thread::test_channel",
           "thread::test_scoped_oncelock", "thread::test_barrier",
           "thread::test_thread_local_storage">>

\* The loop is modelled over the last NumTests entries of the registry.
NumTests == 5
Registry == SubSeq(tests, Len(tests) - NumTests + 1, Len(tests))

\* What func() can return: a scenario's result is an input of the loop.
ScenarioResults == {Ok, Err("Thread panicked", <<>>)}

\* One printed line: the format string and its arguments.
Line(fmt, arg, n) == [fmt |-> fmt, arg |-> arg, n |-> n]

\* for (func, name) in tests { print!("Running {name}..."); flush; func() ...
runner_call ==
    /\ run_state = "loop"
    /\ next_test <= Len(Registry)
    /\ stdout' = Append(stdout, Line("Running {name}...", Registry[next_test], 0))
    /\ run_state' = "calling"
    /\ UNCHANGED <<test, parentVars, pc, ret, iter, read_val, counter, pair, spurious,
                   rwlock, channel, received, barrier, local_gen, THREAD_LOCAL,
                   lock, inits, next_test, failed, exit_code, macroVars>>

\* Err(e) => { failed += 1; ... }
FailedAfter_set(f, r) == IF r.kind = "Err" THEN 1 ELSE f
FailedAfter(f, r) == IF r.kind = "Err" THEN f + 1 ELSE f

\* The for loop goes on to the next entry whatever func() returned.
NextTestAfter_break(i, r) == IF r.kind = "Err" THEN Len(Registry) + 1 ELSE i + 1
NextTestAfter(i, r) == i + 1

\* ... match func() { Ok(_) => println!(" OK"), Err(e) => { failed += 1;
\* println!(" FAILED: {}", e) } } }
runner_report ==
    /\ run_state = "calling"
    /\ \E r \in ScenarioResults :
          /\ failed' = FailedAfter(failed, r)
          /\ stdout' = Append(stdout, IF r.kind = "Err" THEN Line(" FAILED: {}", r.msg, 0)
                                      ELSE Line(" OK", "", 0))
          /\ next_test' = NextTestAfter(next_test, r)
          /\ run_state' = IF NextTestAfter(next_test, r) > Len(Registry)
                          THEN "summary" ELSE "loop"
    /\ UNCHANGED <<test, parentVars, pc, ret, iter, read_val, counter, pair, spurious,
                   rwlock, channel, received, barrier, local_gen, THREAD_LOCAL,
                   lock, inits, exit_code, macroVars>>

\* if failed == 0
AllPassed_always(f) == TRUE
AllPassed(f) == f = 0

\* if failed == 0 { println!("All tests passed!") } else {
\* println!("{failed} tests failed."); std::process::exit(1) }
runner_summary ==
    /\ run_state = "summary"
    /\ IF AllPassed(failed)
       THEN /\ stdout' = Append(stdout, Line("All tests passed!", "", 0))
            /\ exit_code' = 0
       ELSE /\ stdout' = Append(stdout, Line("{failed} tests failed.", "", failed))
            /\ exit_code' = 1
    /\ run_state' = "exited"
    /\ UNCHANGED <<test, parentVars, pc, ret, iter, read_val, counter, pair, spurious,
                   rwlock, channel, received, barrier, local_gen, THREAD_LOCAL,
                   lock, inits, next_test, failed, macroVars>>

RunnerInit ==
    /\ test = ""
    /\ ScenarioVarsInit
    /\ RunnerVarsInit
    /\ MacroVarsInit

RunnerNext == runner_call \/ runner_report \/ runner_summary

RunnerSpec == RunnerInit /\ [][RunnerNext]_vars

\* The threads are real OS threads: one that can take a step is eventually
\* scheduled.
\* The steps of thread t that the scheduler runs: all but the return of
\* Condvar::wait without a notification, which may happen but need not.
Scheduled(t) == pc[t] # "waiting" /\ Worker(t)

FairSpec ==
    /\ Spec
    /\ WF_vars(Parent)
    /\ \A t \in Threads : WF_vars(Scheduled(t))

\* Fair scheduling with a mutex that does not starve a caller of lock(): a
\* thread at pair.lock() gets the mutex if it is released again and again.
FairLockSpec ==
    /\ FairSpec
    /\ \A t \in Threads : SF_vars(condvar_lock(t))

\* ------------------------------------------------------------------ properties

Workers == 0 .. (NThreads(test) - 1)
AllJoined == joined = NThreads(test)
Returned == main = "returned"

\* C1: in test_mutex_counter, whatever the interleaving, the counter the parent
\* reads once every worker is joined is exactly THREAD_COUNT * ITER_COUNT, and
\* the scenario returns Ok.
C1_MutexCounterExact ==
    test = "test_mutex_counter" =>
        /\ AllJoined => counter.num = THREAD_COUNT * ITER_COUNT
        /\ Returned => result = Ok

C1_Witness ==
    /\ test = "test_mutex_counter"
    /\ Returned
    /\ result = Ok
    /\ counter.num = THREAD_COUNT * ITER_COUNT

\* C2 as claimed: in test_scheduling every worker that holds the lock at the
\* start of round j observes a counter >= j * THREAD_COUNT, and the count after
\* the join loop is THREAD_COUNT * ITER_COUNT.
C2_Original ==
    test = "test_scheduling" =>
        /\ \A t \in Workers : pc[t] = "check" => counter.num >= iter[t] * THREAD_COUNT
        /\ AllJoined => counter.num = THREAD_COUNT * ITER_COUNT

\* C2 as amended: a worker increments in round j only after observing a counter
\* >= j * THREAD_COUNT; a worker that observed less returned the band error
\* without incrementing; when the join loop has joined every worker the count
\* is THREAD_COUNT * ITER_COUNT and the scenario returns Ok.
C2_BandGuardsIncrement ==
    test = "test_scheduling" =>
        /\ \A t \in Workers :
              /\ pc[t] \in {"incr", "sleep"} => read_val[t] >= iter[t] * THREAD_COUNT
              /\ pc[t] = "incr" => counter.num = read_val[t]
              /\ ret[t].kind = "Err" =>
                    /\ read_val[t] < iter[t] * THREAD_COUNT
                    /\ ret[t] = BandError(t, iter[t], read_val[t])
        /\ AllJoined => counter.num = THREAD_COUNT * ITER_COUNT
        /\ (AllJoined /\ Returned) => result = Ok

C2_Witness ==
    /\ test = "test_scheduling"
    /\ Returned
    /\ result = Ok
    /\ counter.num = THREAD_COUNT * ITER_COUNT
    /\ \A t \in Workers : read_val[t] >= (ITER_COUNT - 1) * THREAD_COUNT

\* C3: when a scenario has returned, with Ok or with Err, every thread it
\* spawned has terminated.
C3_NoThreadOutlivesScenario ==
    Returned => \A t \in Workers : pc[t] = "done"

\* C4: test_rwlock fails only through its final check final_count ==
\* THREAD_COUNT (lock poisoning and panics aside, which no run produces): a
\* reader that saw the initial 0 does not fail it.
C4_OnlyFinalCheckFails ==
    (test = "test_rwlock" /\ Returned /\ result.kind = "Err") =>
        /\ AllJoined
        /\ result = assert_eq_res(rwlock.num, THREAD_COUNT,
                                  "final_count", "THREAD_COUNT as i32")

\* C5: in test_rwlock, once all THREAD_COUNT writers have terminated the value
\* is exactly THREAD_COUNT, and readers leave it alone.
Writers == 0 .. (THREAD_COUNT - 1)
Readers == THREAD_COUNT .. (THREAD_COUNT + THREAD_COUNT - 1)

C5_OneIncrementPerWriter ==
    test = "test_rwlock" =>
        /\ (\A w \in Writers : pc[w] = "done") => rwlock.num = THREAD_COUNT
        /\ rwlock.num <= Cardinality({w \in Writers : pc[w] = "done"})
        /\ rwlock.num >= Cardinality({w \in Writers : pc[w] = "done"})

C5_Witness ==
    /\ test = "test_rwlock"
    /\ \A w \in Writers : pc[w] = "done"
    /\ rwlock.num = THREAD_COUNT
    /\ \E r \in Readers : pc[r] = "assert"

\* C6: in test_channel the values received so far, followed by those still in
\* the channel, are the values sent so far, 0, 1, ... in order; so the received
\* sequence is always a prefix of the sent one, and it is the whole of it when
\* the receiver returns.
Sent == SubSeq(Expected, 1, iter[0])

C6_ReceivedIsPrefixOfSent ==
    test = "test_channel" =>
        /\ received \o channel.queue = Sent
        /\ Len(received) <= THREAD_COUNT
        /\ received = SubSeq(Expected, 1, Len(received))
        /\ pc[1] = "done" => (ret[1] = Ok /\ received = Expected)

C6_Witness ==
    /\ test = "test_channel"
    /\ pc[1] = "done"
    /\ received = Expected
    /\ Len(received) = THREAD_COUNT

\* C7: in test_barrier no worker has returned from barrier.wait() while fewer
\* than THREAD_COUNT workers have called it.
Arrived == {t \in Workers : pc[t] \in {"blocked", "done"}}

C7_NoEarlyRelease ==
    test = "test_barrier" =>
        \A t \in Workers : pc[t] = "done" => Cardinality(Arrived) >= THREAD_COUNT

C7_Witness ==
    /\ test = "test_barrier"
    /\ \E t \in Workers : pc[t] = "done"
    /\ \E t \in Workers : pc[t] = "blocked"

\* C8: under fair scheduling test_barrier ends: every worker passes the
\* barrier and terminates, the join loop completes and the scenario returns Ok.
C8_BarrierTerminates ==
    (test = "test_barrier") ~>
        (Returned /\ result = Ok /\ AllJoined /\ \A t \in Workers : pc[t] = "done")

C8_Witness ==
    /\ test = "test_barrier"
    /\ Returned
    /\ result = Ok
    /\ barrier.generation_id = 1

\* C9: in test_condvar the waiter has left its wait loop only on reading the
\* flag true, spurious wake-ups included, and once both threads have terminated
\* the flag is true (the parent's check passes).
C9_WaiterLeavesOnlyWhenSet ==
    test = "test_condvar" =>
        /\ pc[1] = "done" => (pair.started /\ read_val[1] = 1 /\ ret[1] = Ok)
        /\ (pc[0] = "done" /\ pc[1] = "done") => pair.started
        /\ Returned => result = Ok

C9_Witness ==
    /\ test = "test_condvar"
    /\ pc[1] = "done"
    /\ spurious
    /\ pair.started

\* C10: in test_thread_local_storage worker i reads back the i + 20 it wrote,
\* never a value another worker wrote, and the parent reads its own slot as 0
\* once the workers are joined.
C10_ThreadLocalIsolation ==
    test = "test_thread_local_storage" =>
        /\ \A t \in Workers : pc[t] = "done" =>
              /\ read_val[t] = t + 20
              /\ ret[t] = Ok
              /\ \A u \in Workers \ {t} : read_val[t] # u + 20
        /\ AllJoined => THREAD_LOCAL[MainSlot] = 0
        /\ Returned => result = Ok

C10_Witness ==
    /\ test = "test_thread_local_storage"
    /\ Returned
    /\ result = Ok
    /\ \A t \in Workers : read_val[t] = t + 20 /\ THREAD_LOCAL[t] = t + 20
    /\ THREAD_LOCAL[MainSlot] = 0

\* C11: in test_scoped_oncelock the parent reads the cell only once the
\* initialising worker has terminated and been joined; the cell then holds the
\* worker's 42 and the check passes; the initialiser runs at most once.
C11_OnceLockReadAfterJoin ==
    test = "test_scoped_oncelock" =>
        /\ main \in {"verify", "returned"} => (pc[0] = "done" /\ lock = <<42>>)
        /\ Returned => result = Ok
        /\ inits <= 1
        /\ lock # <<>> => (lock = <<42>> /\ inits = 1)

C11_Witness ==
    /\ test = "test_scoped_oncelock"
    /\ Returned
    /\ result = Ok
    /\ lock = <<42>>
    /\ inits = 1

\* ------------------------------------------------------------------ properties of main

IsRunning(l) == l.fmt = "Running {name}..."
IsOutcome(l) == l.fmt \in {" OK", " FAILED: {}"}
IsFail(l) == l.fmt = " FAILED: {}"
Invoked == SelectSeq(stdout, IsRunning)
Outcomes == SelectSeq(stdout, IsOutcome)
NumFailOutcomes == Len(SelectSeq(stdout, IsFail))

\* C12: the scenarios are invoked in registration order, each once and one at
\* a time, whatever the earlier outcomes; each invocation has exactly one
\* outcome, and after the loop every registered scenario has been invoked.
C12_EveryScenarioOnceInOrder ==
    /\ Len(Invoked) <= Len(Registry)
    /\ \A i \in 1 .. Len(Invoked) : Invoked[i].arg = Registry[i]
    /\ Len(Outcomes) = Len(Invoked) - (IF run_state = "calling" THEN 1 ELSE 0)
    /\ \A i \in 1 .. (Len(Invoked) + Len(Outcomes)) :
          IF i % 2 = 1 THEN IsRunning(stdout[i]) ELSE IsOutcome(stdout[i])
    /\ run_state \in {"summary", "exited"} =>
          (Len(Invoked) = Len(Registry) /\ Len(Outcomes) = Len(Registry))

C12_Witness ==
    /\ run_state = "exited"
    /\ Len(Invoked) = Len(Registry)
    /\ IsFail(Outcomes[1])
    /\ ~IsFail(Outcomes[Len(Outcomes)])

\* C13: at every point of the loop the failed counter is the number of
\* scenarios processed so far whose outcome was Fail.
C13_FailedCountsFailOutcomes ==
    failed = NumFailOutcomes

C13_Witness ==
    /\ run_state = "loop"
    /\ failed = 2
    /\ NumFailOutcomes = 2
    /\ Len(Outcomes) > 2

\* C14: the process ends with "All tests passed!" and exit code 0 exactly when
\* no scenario failed, and otherwise with "<failed> tests failed.", carrying the
\* number of failures, and a non-zero exit code; nothing of this before the end.
C14_SummaryAndExitCode ==
    /\ run_state = "exited" =>
          IF NumFailOutcomes = 0
          THEN /\ stdout[Len(stdout)] = Line("All tests passed!", "", 0)
               /\ exit_code = 0
          ELSE /\ stdout[Len(stdout)] = Line("{failed} tests failed.", "", NumFailOutcomes)
               /\ exit_code # 0
    /\ run_state # "exited" =>
          /\ exit_code = -1
          /\ \A i \in 1 .. Len(stdout) : IsRunning(stdout[i]) \/ IsOutcome(stdout[i])

C14_Witness ==
    /\ run_state = "exited"
    /\ NumFailOutcomes = 2
    /\ exit_code = 1
    /\ stdout[Len(stdout)] = Line("{failed} tests failed.", "", 2)

\* ------------------------------------------------------------------ properties of the joins

PanicMessages == {"Thread panicked", "Thread 1 panicked", "Thread 2 panicked",
                  "Sender thread panicked", "Receiver thread panicked"}

\* C15: a worker that panicked makes the join that consumes it return the
\* scenario with the join's own 'panicked' message, which no worker uses for an
\* error it returns; the panic never unwinds the parent, and no panicked worker
\* is counted as joined successfully.
C15_PanicBecomesFailure ==
    /\ main \in {"spawn", "join", "verify", "returned"}
    /\ result.kind \in {"None", "Ok", "Err"}
    /\ \A h \in Threads : h < joined => ret[h].kind = "Ok"
    /\ \A t \in Threads : ret[t].kind = "Err" => ret[t].msg \notin PanicMessages
    /\ (Returned /\ ~AllJoined) =>
          /\ ret[joined].kind \in {"Panic", "Err"}
          /\ ret[joined].kind = "Panic" =>
                (result = Err(PanicMessage(test, joined), <<>>)
                    /\ result.msg \in PanicMessages)
          /\ ret[joined].kind = "Err" => result = ret[joined]

C15_Witness ==
    /\ test = "test_mutex_counter"
    /\ Returned
    /\ ret[joined].kind = "Panic"
    /\ result = Err("Thread panicked", <<>>)
    /\ \E t \in Workers : ret[t] = Err("Failed to lock mutex", <<>>)

\* ------------------------------------------------------------------ the band check on its inputs

\* The largest value the counter of test_scheduling reaches.
MaxValue == THREAD_COUNT * ITER_COUNT

\* The round body of the test_scheduling closure (lock, check, increment,
\* sleep) as a function of its inputs: the round j each worker is in and the
\* value the counter holds, which the rounds of the other workers decide.  One
\* worker holds the guard and is about to compare.
BandInit ==
    /\ test = "test_scheduling"
    /\ main = "join"
    /\ handles = THREAD_COUNT
    /\ joined = 0
    /\ result = NoRet
    /\ \E t \in 0..(THREAD_COUNT - 1) :
          /\ pc = [u \in Threads |-> IF u = t THEN "check"
                                     ELSE IF u < THREAD_COUNT THEN "lock"
                                     ELSE "not_spawned"]
          /\ \E v \in 0..MaxValue :
                counter = [num |-> v, holder |-> {t}, poisoned |-> FALSE]
    /\ ret = [u \in Threads |-> NoRet]
    /\ \E js \in [0..(THREAD_COUNT - 1) -> 0..(ITER_COUNT - 1)] :
          iter = [u \in Threads |-> IF u < THREAD_COUNT THEN js[u] ELSE 0]
    /\ read_val = [u \in Threads |-> 0]
    /\ pair = [started |-> FALSE, holder |-> {}, waiters |-> {}, poisoned |-> FALSE]
    /\ spurious = FALSE
    /\ rwlock = [num |-> 0, writer |-> {}, readers |-> {}, poisoned |-> FALSE]
    /\ channel = [queue |-> <<>>, sender |-> TRUE, receiver |-> TRUE]
    /\ received = <<>>
    /\ barrier = [count |-> 0, generation_id |-> 0]
    /\ local_gen = [u \in Threads |-> 0]
    /\ THREAD_LOCAL = [s \in Threads \cup {MainThread} |-> 0]
    /\ RunnerVarsInit
    /\ MacroVarsInit
    /\ lock = <<>>
    /\ inits = 0

BandNext == \E t \in Threads : scheduling_worker(t)

BandSpec == BandInit /\ [][BandNext]_vars

\* C16: the worker i that compares in round j returns the error exactly when
\* the value v it observes under the lock is below j * THREAD_COUNT; the error
\* carries i, j, v and both band bounds, and the round leaves the counter as it
\* was.  Any other value, those at or above (j + 1) * THREAD_COUNT included, is
\* accepted and the worker goes on to increment.
C16_BandCheck ==
    [][\A t \in Threads :
          (pc[t] = "check" /\ pc'[t] # "check") =>
             LET j == iter[t]
                 v == counter.num
             IN  IF v < j * THREAD_COUNT
                 THEN /\ pc'[t] = "done"
                      /\ ret'[t].kind = "Err"
                      /\ ret'[t].args = <<t, j, v, j * THREAD_COUNT, (j + 1) * THREAD_COUNT>>
                      /\ counter'.num = v
                      /\ counter'.holder = {}
                 ELSE /\ pc'[t] = "incr"
                      /\ ret'[t] = NoRet
                      /\ counter' = counter]_vars

C16_Witness ==
    \E t \in Threads :
        /\ test = "test_scheduling"
        /\ pc[t] = "done"
        /\ ret[t] = BandError(t, iter[t], read_val[t])
        /\ read_val[t] < iter[t] * THREAD_COUNT
        /\ counter.num = read_val[t]

\* ------------------------------------------------------------------ the assertion macros on their inputs

\* The operands of assert_eq_res! range over 0 .. MaxOperand.
MaxOperand == 4

\* Condition texts and pairs of expression texts the scenarios expand the
\* macros with (stringify!), backquotes aside.
CondTexts == {"*started", "*num >= 1"}
EqTexts == {<<"result", "THREAD_COUNT * ITER_COUNT">>,
            <<"final_count", "THREAD_COUNT as i32">>}

MacroArgs ==
    {[macro |-> "assert_res", cond |-> c, left |-> 0, right |-> 0, texts |-> <<x>>] :
        c \in BOOLEAN, x \in CondTexts}
    \cup
    {[macro |-> "assert_eq_res", cond |-> TRUE, left |-> l, right |-> r, texts |-> x] :
        l \in 0..MaxOperand, r \in 0..MaxOperand, x \in EqTexts}

\* A function fn f() -> Result<(), _> { <macro>!(..); Ok(()) } about to expand
\* one of the macros.
MacroInit ==
    /\ test = ""
    /\ ScenarioVarsInit
    /\ RunnerVarsInit
    /\ macro_args \in MacroArgs
    /\ macro_state = "before"

\* What the expansion does to its enclosing function: an Err of the macro is
\* returned from it, otherwise control falls through to the next statement.
Expand(r) ==
    IF r.kind = "Err"
    THEN /\ macro_state' = "returned"
         /\ result' = r
    ELSE /\ macro_state' = "continued"
         /\ UNCHANGED result

macro_assert_res ==
    /\ macro_state = "before"
    /\ macro_args.macro = "assert_res"
    /\ Expand(assert_res(macro_args.cond, macro_args.texts[1]))
    /\ UNCHANGED <<test, main, handles, joined, pc, ret, iter, read_val, counter, pair,
                   spurious, rwlock, channel, received, barrier, local_gen, THREAD_LOCAL,
                   lock, inits, runnerVars, macro_args>>

macro_assert_eq_res ==
    /\ macro_state = "before"
    /\ macro_args.macro = "assert_eq_res"
    /\ Expand(assert_eq_res(macro_args.left, macro_args.right,
                            macro_args.texts[1], macro_args.texts[2]))
    /\ UNCHANGED <<test, main, handles, joined, pc, ret, iter, read_val, counter, pair,
                   spurious, rwlock, channel, received, barrier, local_gen, THREAD_LOCAL,
                   lock, inits, runnerVars, macro_args>>

\* The statement after the macro: Ok(()).
macro_fall_through ==
    /\ macro_state = "continued"
    /\ macro_state' = "completed"
    /\ result' = Ok
    /\ UNCHANGED <<test, main, handles, joined, pc, ret, iter, read_val, counter, pair,
                   spurious, rwlock, channel, received, barrier, local_gen, THREAD_LOCAL,
                   lock, inits, runnerVars, macro_args>>

MacroNext ==
    \/ macro_assert_res
    \/ macro_assert_eq_res
    \/ macro_fall_through

MacroSpec == MacroInit /\ [][MacroNext]_vars

\* C17: the enclosing function of an assertion macro is only ever before it,
\* returned by it, or past it, never aborted.  assert_res returns exactly when
\* its condition is false, with an Err whose message quotes the condition
\* text; assert_eq_res returns exactly when its operands differ, with an Err
\* whose message quotes both expression texts and carries both values.
\* Otherwise control falls through with nothing returned yet.
C17_MacrosReturnErr ==
    LET a == macro_args
        fails == IF a.macro = "assert_res" THEN ~a.cond ELSE a.left # a.right
    IN  /\ macro_state \in {"before", "continued", "returned", "completed"}
        /\ macro_state = "before" => result = NoRet
        /\ macro_state = "continued" => (~fails /\ result = NoRet)
        /\ macro_state = "completed" => (~fails /\ result = Ok)
        /\ macro_state = "returned" =>
              /\ fails
              /\ result.kind = "Err"
              /\ a.macro = "assert_res" =>
                    /\ result.msg = "Assertion failed: '" \o a.texts[1] \o "' is false"
                    /\ result.args = <<>>
              /\ a.macro = "assert_eq_res" =>
                    /\ result.msg = "Assertion failed: '" \o a.texts[1] \o "' != '"
                                      \o a.texts[2] \o "'. Left: {:?}, Right: {:?}"
                    /\ result.args = <<a.left, a.right>>

C17_Witness ==
    /\ macro_args.macro = "assert_eq_res"
    /\ macro_args.left # macro_args.right
    /\ macro_state = "returned"
    /\ result.args = <<macro_args.left, macro_args.right>>

\* ------------------------------------------------------------------ properties of the locks

\* At most one thread holds each mutex, at most one the write lock, and no
\* reader holds the RwLock together with a writer.
Exclusive ==
    /\ Cardinality(counter.holder) <= 1
    /\ Cardinality(pair.holder) <= 1
    /\ Cardinality(rwlock.writer) <= 1
    /\ rwlock.writer # {} => rwlock.readers = {}

\* The thread whose statement the step executes holds m alone.
WrittenUnderLock(holders) ==
    \E t \in Threads : pc'[t] # pc[t] /\ holders = {t}

\* C18: in test_mutex_counter, test_scheduling, test_condvar and test_rwlock
\* exclusive access is held by at most one thread at any time, never by a
\* writer of the RwLock together with a reader, and every step that changes
\* the shared counter, flag or RwLock value is a step of the one thread that
\* holds the protecting lock exclusively.
C18_WritesUnderExclusiveLock ==
    /\ []Exclusive
    /\ [][/\ counter'.num # counter.num => WrittenUnderLock(counter.holder)
          /\ pair'.started # pair.started => WrittenUnderLock(pair.holder)
          /\ rwlock'.num # rwlock.num =>
                (WrittenUnderLock(rwlock.writer) /\ rwlock.readers = {})]_vars

C18_Witness ==
    /\ test = "test_rwlock"
    /\ rwlock.num >= 1
    /\ \E w \in Writers : rwlock.writer = {w} /\ pc[w] = "store"
    /\ \E r \in Readers : pc[r] = "read"

\* ------------------------------------------------------------------ properties of the condition variable, liveness

C20_NoDisconnectObserved ==
    /\ [](test = "test_channel" =>
            /\ \A t \in Workers : ret[t].kind # "Err"
            /\ result.kind # "Err"
            /\ ~channel.sender =>
                  Len(received) + Len(channel.queue) = THREAD_COUNT)
    /\ (test = "test_channel") ~>
          (/\ pc[0] = "done" /\ ret[0] = Ok
           /\ pc[1] = "done" /\ ret[1] = Ok
           /\ Len(received) = THREAD_COUNT
           /\ Returned /\ result = Ok)

C20_Witness ==
    /\ test = "test_channel"
    /\ pc[0] = "done"
    /\ ~channel.sender
    /\ Len(channel.queue) = THREAD_COUNT
    /\ pc[1] = "recv"
    /\ received = <<>>

\* ------------------------------------------------------------------ properties of test_scheduling, liveness

\* C21: in test_scheduling a worker that has returned, by the band error
\* included, holds no guard and has not poisoned the mutex, so no worker
\* returns 'Failed to lock mutex'; under fair scheduling every invocation
\* leads to every worker having returned, the mutex free and the scenario
\* returned with Ok or Err.
C21_SchedulingTerminates ==
    /\ [](test = "test_scheduling" =>
            /\ ~counter.poisoned
            /\ \A t \in Workers :
                  /\ pc[t] = "done" => t \notin counter.holder
                  /\ ret[t] # Err("Failed to lock mutex", <<>>)
            /\ result # Err("Failed to lock mutex", <<>>))
    /\ (test = "test_scheduling") ~>
          (/\ \A t \in Workers : pc[t] = "done" /\ ret[t].kind \in {"Ok", "Err"}
           /\ counter.holder = {}
           /\ Returned
           /\ result.kind \in {"Ok", "Err"})

C21_Witness ==
    /\ test = "test_scheduling"
    /\ \E t \in Workers, u \in Workers :
          /\ t # u
          /\ pc[t] = "done"
          /\ ret[t] = BandError(t, iter[t], read_val[t])
          /\ counter.holder = {u}
          /\ pc[u] = "check"

\* ------------------------------------------------------------------ properties of the join loop

\* C22: a scenario that returns from its join loop reports the error of the
\* worker it was joining; every worker spawned before that one returned Ok, so
\* it is the failing worker with the smallest spawn index, whichever worker
\* failed first; and what the scenario has reported never changes, so the
\* error of a worker spawned later is never reported.
C22_SmallestIndexErrorReported ==
    /\ [](\A h \in Workers : ret[h].kind = "Err" => h >= joined)
    /\ []((Returned /\ ~AllJoined) =>
            (ret[joined].kind = "Err" /\ result = ret[joined]))
    /\ [][result # NoRet => result' = result]_vars

C22_Witness ==
    /\ test = "test_rwlock"
    /\ Returned
    /\ joined = THREAD_COUNT
    /\ result = ret[joined]
    /\ \E u \in Workers : u > joined /\ ret[u].kind = "Err"
====
